---- MODULE Spec2Model ----
(***************************************************************************)
(* Access control of the project/task tracker (Django REST framework       *)
(* views of the project, task and users apps).                             *)
(*                                                                         *)
(* The database is the state: the Project table (owner, members), the Task *)
(* table (project, created_by, assigned_to, status) and the two            *)
(* auto-increment primary-key counters.  The other columns (name, title,   *)
(* description, priority, due_date) are data no rule reads; "title" stands *)
(* for them in a task's change set, where only their presence counts.      *)
(* Every request handler is one action; resp is the response the last      *)
(* request got.  Spec runs the requests one after the other; SpecConc lets *)
(* a member request run between the two statements of an assign request.   *)
(* The generic view                                                        *)
(* plumbing is the framework's: update() answers 200 with the serialized   *)
(* instance, destroy() answers 204 and create() answers 201 whatever       *)
(* perform_update / perform_destroy / perform_create return, get_object()  *)
(* answers 404 for no row and lets MultipleObjectsReturned through as 500. *)
(***************************************************************************)
EXTENDS Integers, FiniteSets, Sequences, TLC

\* ------------------------------------------------------------------ bounds
NumUsers == 3
MaxProjects == 1
MaxTasks == 1
MoveProjects == 2

\* ------------------------------------------------------- program constants
HTTP_200_OK == 200
HTTP_201_CREATED == 201
HTTP_204_NO_CONTENT == 204
HTTP_400_BAD_REQUEST == 400
HTTP_403_FORBIDDEN == 403
HTTP_404_NOT_FOUND == 404
\* an exception no handler catches (MultipleObjectsReturned from get())
HTTP_500_INTERNAL_SERVER_ERROR == 500

\* None, as a user reference (assigned_to = None, user_id is None)
None == 0

Users == 1 .. NumUsers
\* user ids a request can name: the existing users and one unknown id
UserIds == 1 .. (NumUsers + 1)
\* is_superuser, set outside the API (createsuperuser); fixed here
Superusers == {3}
is_superuser(user) == user \in Superusers

ProjectPks == 1 .. MaxProjects
TaskPks == 1 .. MaxTasks

Statuses == {"todo", "in_progress", "done"}
\* the writable fields of ProjectSerializer that the model keeps
ProjectFields == {"member_ids"}
\* the writable fields of TaskSerializer that the model keeps
TaskFields == {"title", "status", "project", "assigned_to"}
Actions == {"add", "remove", "other"}

VARIABLES
    projects,       \* Project table: pk -> [owner, members]
    tasks,          \* Task table: pk -> [project, created_by, assigned_to, status]
    next_project,   \* next primary key of the Project table
    next_task,      \* next primary key of the Task table
    resp,           \* the last response: [op, actor, pk, status, arg]
    inflight        \* the assign requests between their read and their save

vars == <<projects, tasks, next_project, next_task, resp, inflight>>

\* a response, with the user the request named (member_id) where the
\* claims need it
ResponseOn(op, actor, pk, status, arg) ==
    [op |-> op, actor |-> actor, pk |-> pk, status |-> status, arg |-> arg]

Response(op, actor, pk, status) == ResponseOn(op, actor, pk, status, None)

\* ------------------------------------------------------------ project app

\* rows of Project LEFT OUTER JOIN project_members for project pk: one row
\* per member, or one row with a NULL member
JoinRows(pk) ==
    IF projects[pk].members = {} THEN {None} ELSE projects[pk].members

\* Project.objects.filter(Q(owner=user) | Q(members=user)): the number of
\* result rows that carry project pk (no distinct())
ProjectDetailView_get_queryset(user, pk) ==
    IF pk \notin DOMAIN projects THEN 0
    ELSE Cardinality({m \in JoinRows(pk) :
                        projects[pk].owner = user \/ m = user})

\* Project.objects.filter(owner=user)
ProjectMemberView_get_queryset(user, pk) ==
    IF pk \in DOMAIN projects /\ projects[pk].owner = user THEN 1 ELSE 0

\* get_object_or_404(queryset, pk=pk) on a queryset with n rows for pk
get_object(n) ==
    IF n = 0 THEN HTTP_404_NOT_FOUND
    ELSE IF n = 1 THEN HTTP_200_OK
    ELSE HTTP_500_INTERNAL_SERVER_ERROR

\* Project.objects.filter(Q(owner=user) | Q(members=user)) of the profile
UserProfileView_projects(user) ==
    {pk \in DOMAIN projects : ProjectDetailView_get_queryset(user, pk) > 0}

\* ProjectCreateView.perform_create: serializer.save(owner=request.user),
\* ProjectSerializer.create sets the members from member_ids
ProjectCreateView_perform_create(user, member_ids) ==
    [pk \in DOMAIN projects \cup {next_project} |->
        IF pk = next_project
        THEN [owner |-> user, members |-> member_ids]
        ELSE projects[pk]]

ProjectCreate(actor, member_ids) ==
    /\ next_project <= MaxProjects
    /\ projects' = ProjectCreateView_perform_create(actor, member_ids)
    /\ next_project' = next_project + 1
    /\ resp' = Response("project_create", actor, next_project, HTTP_201_CREATED)
    /\ UNCHANGED <<tasks, next_task, inflight>>

ProjectRetrieve(actor, pk) ==
    /\ resp' = Response("project_retrieve", actor, pk,
                        get_object(ProjectDetailView_get_queryset(actor, pk)))
    /\ UNCHANGED <<projects, tasks, next_project, next_task, inflight>>

UserProfileRetrieve(actor) ==
    /\ resp' = Response("profile", actor, None, HTTP_200_OK)
    /\ UNCHANGED <<projects, tasks, next_project, next_task, inflight>>

\* ProjectSerializer.update: members.set(members) when member_ids was sent
ProjectSerializer_update(instance, data) ==
    [owner |-> instance.owner,
     members |-> IF "member_ids" \in data.fields THEN data.member_ids
                 ELSE instance.members]

\* perform_update without its owner check
ProjectDetailView_perform_update_unchecked(user, pk, data) ==
    [projects EXCEPT ![pk] = ProjectSerializer_update(projects[pk], data)]

\* ProjectDetailView.perform_update: the Project table it leaves
ProjectDetailView_perform_update(user, pk, data) ==
    IF projects[pk].owner # user
    THEN projects
    ELSE [projects EXCEPT ![pk] = ProjectSerializer_update(projects[pk], data)]

\* PUT/PATCH project/<pk>/ : UpdateModelMixin.update
ProjectUpdate(actor, pk, data) ==
    LET found == get_object(ProjectDetailView_get_queryset(actor, pk)) IN
    /\ IF found # HTTP_200_OK
       THEN /\ resp' = Response("project_update", actor, pk, found)
            /\ UNCHANGED projects
       ELSE /\ projects' = ProjectDetailView_perform_update(actor, pk, data)
            /\ resp' = Response("project_update", actor, pk, HTTP_200_OK)
    /\ UNCHANGED <<tasks, next_project, next_task, inflight>>

\* instance.delete() of a project: its tasks go with it (Task.project)
Project_delete(pk) ==
    [projects |-> [q \in DOMAIN projects \ {pk} |-> projects[q]],
     tasks |-> [t \in {u \in DOMAIN tasks : tasks[u].project # pk} |-> tasks[t]]]

\* ProjectDetailView.perform_destroy: the tables it leaves
ProjectDetailView_perform_destroy(user, pk) ==
    IF projects[pk].owner # user
    THEN [projects |-> projects, tasks |-> tasks]
    ELSE Project_delete(pk)

\* DELETE project/<pk>/ : DestroyModelMixin.destroy
ProjectDestroy(actor, pk) ==
    LET found == get_object(ProjectDetailView_get_queryset(actor, pk)) IN
    /\ IF found # HTTP_200_OK
       THEN /\ resp' = Response("project_destroy", actor, pk, found)
            /\ UNCHANGED <<projects, tasks>>
       ELSE LET db == ProjectDetailView_perform_destroy(actor, pk) IN
            /\ projects' = db.projects
            /\ tasks' = db.tasks
            /\ resp' = Response("project_destroy", actor, pk, HTTP_204_NO_CONTENT)
    /\ UNCHANGED <<next_project, next_task, inflight>>

\* ProjectMemberView.patch after get_object: the response status and the
\* member set it leaves
ProjectMemberView_patch(pk, member_id, action) ==
    LET members == projects[pk].members IN
    IF member_id \notin members
    THEN [status |-> HTTP_404_NOT_FOUND, members |-> members]
    ELSE IF action = "add"
    THEN [status |-> HTTP_200_OK, members |-> members \cup {member_id}]
    ELSE IF action = "remove"
    THEN [status |-> HTTP_200_OK, members |-> members \ {member_id}]
    ELSE [status |-> HTTP_400_BAD_REQUEST, members |-> members]

\* the member request, were a removal to unassign the removed user's tasks
ProjectMembers_unassigning(actor, pk, member_id, action) ==
    LET found == get_object(ProjectMemberView_get_queryset(actor, pk)) IN
    /\ IF found # HTTP_200_OK
       THEN /\ resp' = Response("project_members", actor, pk, found)
            /\ UNCHANGED <<projects, tasks>>
       ELSE LET r == ProjectMemberView_patch(pk, member_id, action) IN
            /\ projects' = [projects EXCEPT ![pk].members = r.members]
            /\ tasks' = [t \in DOMAIN tasks |->
                            IF /\ tasks[t].project = pk
                               /\ tasks[t].assigned_to \notin r.members
                            THEN [tasks[t] EXCEPT !.assigned_to = None]
                            ELSE tasks[t]]
            /\ resp' = ResponseOn("project_members", actor, pk, r.status, member_id)
    /\ UNCHANGED <<next_project, next_task, inflight>>

\* PATCH on ProjectMemberView
ProjectMembers(actor, pk, member_id, action) ==
    LET found == get_object(ProjectMemberView_get_queryset(actor, pk)) IN
    /\ IF found # HTTP_200_OK
       THEN /\ resp' = Response("project_members", actor, pk, found)
            /\ UNCHANGED projects
       ELSE LET r == ProjectMemberView_patch(pk, member_id, action) IN
            /\ projects' = [projects EXCEPT ![pk].members = r.members]
            /\ resp' = ResponseOn("project_members", actor, pk, r.status, member_id)
    /\ UNCHANGED <<tasks, next_project, next_task, inflight>>

\* -------------------------------------------------------------- task app

\* the filter without its Q(assigned_to=user) clause
TaskVisibleQ_without_assignee(user, pk) ==
    \/ projects[tasks[pk].project].owner = user
    \/ user \in projects[tasks[pk].project].members

\* Q(project__owner=user) | Q(project__members=user) | Q(assigned_to=user)
TaskVisibleQ(user, pk) ==
    \/ projects[tasks[pk].project].owner = user
    \/ user \in projects[tasks[pk].project].members
    \/ tasks[pk].assigned_to = user

\* TaskListCreateView.get_queryset: the tasks listed for user; the query
\* parameters project and status filter when they are non-empty
TaskListCreateView_get_queryset(user, params) ==
    IF is_superuser(user) THEN DOMAIN tasks
    ELSE {pk \in DOMAIN tasks :
            /\ TaskVisibleQ(user, pk)
            /\ (params.project # None => tasks[pk].project = params.project)
            /\ (params.status # "" => tasks[pk].status = params.status)}

\* TaskDetailView.get_queryset (distinct)
TaskDetailView_get_queryset(user) ==
    IF is_superuser(user) THEN DOMAIN tasks
    ELSE {pk \in DOMAIN tasks : TaskVisibleQ(user, pk)}

\* TaskAssignView.get_queryset (distinct)
TaskAssignView_get_queryset(user) ==
    {pk \in DOMAIN tasks :
        \/ projects[tasks[pk].project].owner = user
        \/ tasks[pk].created_by = user
        \/ tasks[pk].assigned_to = user}

\* the number of rows of a distinct queryset that carry pk
Rows(queryset, pk) == IF pk \in queryset THEN 1 ELSE 0

\* TaskSerializer.validate_project
TaskSerializer_validate_project(user, value) ==
    projects[value].owner = user

\* TaskSerializer.is_valid on the fields that were sent: the project
\* exists and validate_project accepts it (assigned_to is any user or None)
TaskSerializer_is_valid(user, data) ==
    "project" \in data.fields =>
        /\ data.project \in DOMAIN projects
        /\ TaskSerializer_validate_project(user, data.project)

\* TaskListCreateView.perform_create: the Task table it leaves
TaskListCreateView_perform_create(user, data) ==
    LET project == projects[data.project] IN
    IF /\ ~is_superuser(user)
       /\ ~(project.owner = user \/ user \in project.members)
    THEN tasks
    ELSE [pk \in DOMAIN tasks \cup {next_task} |->
            IF pk = next_task
            THEN [project |-> data.project,
                  created_by |-> user,
                  assigned_to |-> data.assigned_to,
                  status |-> data.status]
            ELSE tasks[pk]]

\* POST task/ : CreateModelMixin.create
TaskCreate(actor, data) ==
    /\ next_task <= MaxTasks
    /\ IF ~TaskSerializer_is_valid(actor, data)
       THEN /\ resp' = Response("task_create", actor, None, HTTP_400_BAD_REQUEST)
            /\ UNCHANGED <<tasks, next_task>>
       ELSE /\ tasks' = TaskListCreateView_perform_create(actor, data)
            /\ next_task' = IF tasks' = tasks THEN next_task ELSE next_task + 1
            /\ resp' = Response("task_create", actor,
                                IF tasks' = tasks THEN None ELSE next_task,
                                HTTP_201_CREATED)
    /\ UNCHANGED <<projects, next_project, inflight>>

\* a list request without query parameters
NoParams == [project |-> None, status |-> ""]

\* GET task/
TaskList(actor) ==
    /\ resp' = Response("task_list", actor, None, HTTP_200_OK)
    /\ UNCHANGED <<projects, tasks, next_project, next_task, inflight>>

\* GET task/<pk>/
TaskRetrieve(actor, pk) ==
    /\ resp' = Response("task_retrieve", actor, pk,
                        get_object(Rows(TaskDetailView_get_queryset(actor), pk)))
    /\ UNCHANGED <<projects, tasks, next_project, next_task, inflight>>

\* ModelSerializer.update: the fields that were sent
TaskSerializer_save(instance, data) ==
    [project |-> IF "project" \in data.fields THEN data.project
                 ELSE instance.project,
     created_by |-> instance.created_by,
     assigned_to |-> IF "assigned_to" \in data.fields THEN data.assigned_to
                     ELSE instance.assigned_to,
     status |-> IF "status" \in data.fields THEN data.status
                ELSE instance.status]

\* TaskDetailView.perform_update: the Task table it leaves
TaskDetailView_perform_update(user, pk, data) ==
    LET task == tasks[pk]
        saved == [tasks EXCEPT ![pk] = TaskSerializer_save(task, data)] IN
    IF projects[task.project].owner = user THEN saved
    ELSE IF task.created_by = user THEN saved
    ELSE IF /\ task.assigned_to = user
            /\ Cardinality(data.fields) = 1
            /\ "status" \in data.fields
    THEN saved
    ELSE tasks

\* PUT/PATCH task/<pk>/ : UpdateModelMixin.update
TaskUpdate(actor, pk, data) ==
    LET found == get_object(Rows(TaskDetailView_get_queryset(actor), pk)) IN
    /\ IF found # HTTP_200_OK
       THEN /\ resp' = Response("task_update", actor, pk, found)
            /\ UNCHANGED tasks
       ELSE IF ~TaskSerializer_is_valid(actor, data)
       THEN /\ resp' = Response("task_update", actor, pk, HTTP_400_BAD_REQUEST)
            /\ UNCHANGED tasks
       ELSE /\ tasks' = TaskDetailView_perform_update(actor, pk, data)
            /\ resp' = Response("task_update", actor, pk, HTTP_200_OK)
    /\ UNCHANGED <<projects, next_project, next_task, inflight>>

\* TaskDetailView.perform_destroy: the Task table it leaves
TaskDetailView_perform_destroy(user, pk) ==
    IF user = projects[tasks[pk].project].owner
    THEN [t \in DOMAIN tasks \ {pk} |-> tasks[t]]
    ELSE tasks

\* DELETE task/<pk>/ : DestroyModelMixin.destroy
TaskDestroy(actor, pk) ==
    LET found == get_object(Rows(TaskDetailView_get_queryset(actor), pk)) IN
    /\ IF found # HTTP_200_OK
       THEN /\ resp' = Response("task_destroy", actor, pk, found)
            /\ UNCHANGED tasks
       ELSE /\ tasks' = TaskDetailView_perform_destroy(actor, pk)
            /\ resp' = Response("task_destroy", actor, pk, HTTP_204_NO_CONTENT)
    /\ UNCHANGED <<projects, next_project, next_task, inflight>>

\* TaskAssignView.patch after get_object: the response status and the
\* assignee it leaves
TaskAssignView_patch(user, pk, user_id) ==
    LET task == tasks[pk] IN
    IF ~(\/ projects[task.project].owner = user
         \/ task.created_by = user
         \/ task.assigned_to = user)
    THEN [status |-> HTTP_403_FORBIDDEN, assigned_to |-> task.assigned_to]
    ELSE IF user_id = None
    THEN [status |-> HTTP_200_OK, assigned_to |-> None]
    ELSE IF user_id \in projects[task.project].members
    THEN [status |-> HTTP_200_OK, assigned_to |-> user_id]
    ELSE [status |-> HTTP_400_BAD_REQUEST, assigned_to |-> task.assigned_to]

\* PATCH on TaskAssignView
TaskAssign(actor, pk, user_id) ==
    LET found == get_object(Rows(TaskAssignView_get_queryset(actor), pk)) IN
    /\ IF found # HTTP_200_OK
       THEN /\ resp' = Response("task_assign", actor, pk, found)
            /\ UNCHANGED tasks
       ELSE LET r == TaskAssignView_patch(actor, pk, user_id) IN
            /\ tasks' = [tasks EXCEPT ![pk].assigned_to = r.assigned_to]
            /\ resp' = Response("task_assign", actor, pk, r.status)
    /\ UNCHANGED <<projects, next_project, next_task, inflight>>

\* TaskAssignView.patch up to members.get(id=user_id): the first of the two
\* statements of an assignment (no transaction joins them).  The request
\* that found its user is in flight with the task instance it will save;
\* every other outcome is answered at once, as in TaskAssign.  One assign
\* request is in flight at a time.
TaskAssign_read(actor, pk, user_id) ==
    LET found == get_object(Rows(TaskAssignView_get_queryset(actor), pk)) IN
    /\ inflight = <<>>
    /\ IF found # HTTP_200_OK
       THEN /\ resp' = Response("task_assign", actor, pk, found)
            /\ UNCHANGED <<tasks, inflight>>
       ELSE LET r == TaskAssignView_patch(actor, pk, user_id) IN
            IF r.status = HTTP_200_OK /\ user_id # None
            THEN /\ inflight' = <<[actor |-> actor, pk |-> pk,
                                    task |-> [tasks[pk] EXCEPT
                                                !.assigned_to = r.assigned_to]]>>
                 /\ UNCHANGED <<tasks, resp>>
            ELSE /\ tasks' = [tasks EXCEPT ![pk].assigned_to = r.assigned_to]
                 /\ resp' = Response("task_assign", actor, pk, r.status)
                 /\ UNCHANGED inflight
    /\ UNCHANGED <<projects, next_project, next_task>>

\* task.save() of the request in flight, and its response
TaskAssign_save ==
    /\ inflight # <<>>
    /\ LET q == Head(inflight) IN
       /\ q.pk \in DOMAIN tasks
       /\ tasks' = [tasks EXCEPT ![q.pk] = q.task]
       /\ resp' = Response("task_assign", q.actor, q.pk, HTTP_200_OK)
    /\ inflight' = <<>>
    /\ UNCHANGED <<projects, next_project, next_task>>

\* the admin site's add form of TaskAdmin: staff store a task with any
\* project, creator and assignee
TaskAdmin_add(project, created_by, assigned_to) ==
    /\ next_task <= MaxTasks
    /\ project \in DOMAIN projects
    /\ tasks' = [pk \in DOMAIN tasks \cup {next_task} |->
                    IF pk = next_task
                    THEN [project |-> project,
                          created_by |-> created_by,
                          assigned_to |-> assigned_to,
                          status |-> "todo"]
                    ELSE tasks[pk]]
    /\ next_task' = next_task + 1
    /\ resp' = Response("admin_add_task", None, next_task, HTTP_200_OK)
    /\ UNCHANGED <<projects, next_project, inflight>>

\* ------------------------------------------------------------ the system

\* the request bodies the model sends
ProjectData ==
    {d \in [fields : SUBSET ProjectFields, member_ids : SUBSET Users] :
        "member_ids" \notin d.fields => d.member_ids = {}}

TaskData ==
    {d \in [fields : SUBSET TaskFields, status : Statuses,
            project : ProjectPks, assigned_to : Users \cup {None}] :
        /\ "status" \notin d.fields => d.status = "todo"
        /\ "project" \notin d.fields => d.project = 1
        /\ "assigned_to" \notin d.fields => d.assigned_to = None}

\* a POST body names the project; status and assigned_to have defaults
TaskCreateData == {d \in TaskData : {"title", "project"} \subseteq d.fields}

Init ==
    /\ projects = <<>>
    /\ tasks = <<>>
    /\ next_project = 1
    /\ next_task = 1
    /\ resp = Response("none", None, None, HTTP_200_OK)
    /\ inflight = <<>>

Next ==
    \/ \E a \in Users, m \in SUBSET Users : ProjectCreate(a, m)
    \/ \E a \in Users, pk \in ProjectPks : ProjectRetrieve(a, pk)
    \/ \E a \in Users : UserProfileRetrieve(a)
    \/ \E a \in Users, pk \in ProjectPks, d \in ProjectData : ProjectUpdate(a, pk, d)
    \/ \E a \in Users, pk \in ProjectPks : ProjectDestroy(a, pk)
    \/ \E a \in Users, pk \in ProjectPks, m \in UserIds, act \in Actions :
          ProjectMembers(a, pk, m, act)
    \/ \E a \in Users, d \in TaskCreateData : TaskCreate(a, d)
    \/ \E a \in Users : TaskList(a)
    \/ \E a \in Users, pk \in TaskPks : TaskRetrieve(a, pk)
    \/ \E a \in Users, pk \in TaskPks, d \in TaskData : TaskUpdate(a, pk, d)
    \/ \E a \in Users, pk \in TaskPks : TaskDestroy(a, pk)
    \/ \E a \in Users, pk \in TaskPks, u \in UserIds \cup {None} : TaskAssign(a, pk, u)
    \/ \E p \in ProjectPks, c \in Users, u \in Users \cup {None} : TaskAdmin_add(p, c, u)

Spec == Init /\ [][Next]_vars

\* requests that overlap: member requests and task creations run between
\* the read and the save of an assign request
NextConc ==
    \/ \E a \in Users, m \in SUBSET Users : ProjectCreate(a, m)
    \/ \E a \in Users, pk \in ProjectPks, m \in UserIds, act \in Actions :
          ProjectMembers(a, pk, m, act)
    \/ \E a \in Users, d \in TaskCreateData : TaskCreate(a, d)
    \/ \E a \in Users, pk \in TaskPks, u \in UserIds \cup {None} :
          TaskAssign_read(a, pk, u)
    \/ TaskAssign_save

SpecConc == Init /\ [][NextConc]_vars

\* a database with MoveProjects projects and one task in the first of them,
\* created by that project's owner, as ProjectCreate and TaskCreate leave it
MoveProjectPks == 1 .. MoveProjects

InitMove ==
    /\ \E o \in [MoveProjectPks -> Users \ Superusers] :
          /\ projects = [p \in MoveProjectPks |->
                            [owner |-> o[p], members |-> Superusers]]
          /\ tasks = [t \in {1} |->
                         [project |-> 1, created_by |-> o[1],
                          assigned_to |-> None, status |-> "todo"]]
    /\ next_project = MoveProjects + 1
    /\ next_task = 2
    /\ resp = Response("none", None, None, HTTP_200_OK)
    /\ inflight = <<>>

\* the change sets of a task edit when any of the projects can be named
TaskMoveData ==
    TaskData \cup
    {[d EXCEPT !.project = p] :
        d \in {e \in TaskData : "project" \in e.fields}, p \in MoveProjectPks}

\* edit, assign and membership requests only: no task is created or deleted
NextMove ==
    \/ \E a \in Users, pk \in TaskPks, d \in TaskMoveData : TaskUpdate(a, pk, d)
    \/ \E a \in Users, pk \in TaskPks, u \in UserIds \cup {None} : TaskAssign(a, pk, u)
    \/ \E a \in Users, pk \in MoveProjectPks, m \in UserIds, act \in Actions :
          ProjectMembers(a, pk, m, act)

SpecMove == InitMove /\ [][NextMove]_vars

TypeOK ==
    /\ DOMAIN projects \subseteq ProjectPks
    /\ \A pk \in DOMAIN projects :
          projects[pk] \in [owner : Users, members : SUBSET Users]
    /\ DOMAIN tasks \subseteq TaskPks
    /\ \A pk \in DOMAIN tasks :
          tasks[pk] \in [project : DOMAIN projects, created_by : Users,
                         assigned_to : Users \cup {None}, status : Statuses]

\* ------------------------------------------------------------ the claims

IsOwner(user, project) == projects[project].owner = user
IsMember(user, project) == user \in projects[project].members

C2_ProjectVisibility ==
    \A pk \in DOMAIN projects, u \in Users :
        get_object(ProjectDetailView_get_queryset(u, pk)) = HTTP_200_OK
            <=> (IsOwner(u, pk) \/ IsMember(u, pk) \/ is_superuser(u))

\* C3: a task creation by actor A naming project P stores a task with
\* created_by = A exactly when A is the owner of P, a member of P or a
\* superuser.
C3_TaskCreateAllowed ==
    [][\A a \in Users, d \in TaskCreateData :
          (d.project \in DOMAIN projects /\ TaskCreate(a, d)) =>
              ((/\ resp'.status = HTTP_201_CREATED
                /\ next_task \in DOMAIN tasks'
                /\ tasks'[next_task].created_by = a
                /\ tasks'[next_task].project = d.project)
               <=> (\/ IsOwner(a, d.project)
                    \/ IsMember(a, d.project)
                    \/ is_superuser(a)))]_vars

\* C4: for a task whose assignee is neither the project owner nor the task
\* creator, the assignee's edit with the change set {status} gets 200 and
\* stores the new status, and the assignee's edit with status plus any
\* other field gets 403.
C4_AssigneeStatusOnly ==
    [][\A a \in Users, pk \in DOMAIN tasks, d \in TaskData :
          (/\ tasks[pk].assigned_to = a
           /\ ~IsOwner(a, tasks[pk].project)
           /\ tasks[pk].created_by # a
           /\ "status" \in d.fields
           /\ TaskUpdate(a, pk, d)) =>
              IF d.fields = {"status"}
              THEN /\ resp'.status = HTTP_200_OK
                   /\ tasks'[pk].status = d.status
              ELSE resp'.status = HTTP_403_FORBIDDEN]_vars

\* the actors the assign rule names: project owner, creator, assignee
MayAssign(user, pk) ==
    \/ IsOwner(user, tasks[pk].project)
    \/ tasks[pk].created_by = user
    \/ tasks[pk].assigned_to = user

\* C5: when a permitted actor assigns task T to a target user, a target
\* that is neither owner nor member of T.project gets 400 and leaves
\* T.assigned_to as it was, and a target that is the owner of T.project
\* gets 200 and becomes T.assigned_to.
C5_AssignEligibility ==
    [][\A a \in Users, pk \in DOMAIN tasks, u \in UserIds :
          (MayAssign(a, pk) /\ TaskAssign(a, pk, u)) =>
              /\ (~IsOwner(u, tasks[pk].project) /\ ~IsMember(u, tasks[pk].project)) =>
                    /\ resp'.status = HTTP_400_BAD_REQUEST
                    /\ tasks'[pk].assigned_to = tasks[pk].assigned_to
              /\ IsOwner(u, tasks[pk].project) =>
                    /\ resp'.status = HTTP_200_OK
                    /\ tasks'[pk].assigned_to = u]_vars

\* C6: for a task whose creator is not the owner of its project (and sees
\* the task as a member of the project), the creator's delete gets 403 and
\* the task still exists, and the creator's edit of any fields gets 200 and
\* is stored.
C6_CreatorDeleteEdit ==
    [][\A a \in Users, pk \in DOMAIN tasks :
          (/\ tasks[pk].created_by = a
           /\ ~IsOwner(a, tasks[pk].project)
           /\ IsMember(a, tasks[pk].project)) =>
              /\ TaskDestroy(a, pk) =>
                    /\ resp'.status = HTTP_403_FORBIDDEN
                    /\ pk \in DOMAIN tasks'
              /\ \A d \in TaskData :
                    TaskUpdate(a, pk, d) =>
                        /\ resp'.status = HTTP_200_OK
                        /\ tasks'[pk] = TaskSerializer_save(tasks[pk], d)]_vars

\* C7: a project edit or delete succeeds exactly when the actor is the
\* owner; a member who is not the owner gets 403.
C7_ProjectEditDelete ==
    [][\A a \in Users, pk \in DOMAIN projects :
          /\ \A d \in ProjectData :
                ProjectUpdate(a, pk, d) =>
                    /\ IsOwner(a, pk) <=>
                          /\ resp'.status = HTTP_200_OK
                          /\ projects'[pk] = ProjectSerializer_update(projects[pk], d)
                    /\ (IsMember(a, pk) /\ ~IsOwner(a, pk)) =>
                          resp'.status = HTTP_403_FORBIDDEN
          /\ ProjectDestroy(a, pk) =>
                /\ IsOwner(a, pk) <=>
                      /\ resp'.status = HTTP_204_NO_CONTENT
                      /\ pk \notin DOMAIN projects'
                /\ (IsMember(a, pk) /\ ~IsOwner(a, pk)) =>
                      resp'.status = HTTP_403_FORBIDDEN]_vars

\* C8: the owner's member request 'add' naming an existing user who is not
\* yet a member gets 200 and the user is a member afterwards; 404 is
\* answered only for an unknown user id; an action that is neither 'add'
\* nor 'remove' gets 400.
C8_MemberAdd ==
    [][\A a \in Users, pk \in DOMAIN projects, m \in UserIds, act \in Actions :
          (IsOwner(a, pk) /\ ProjectMembers(a, pk, m, act)) =>
              /\ (act = "add" /\ m \in Users /\ ~IsMember(m, pk)) =>
                    /\ resp'.status = HTTP_200_OK
                    /\ m \in projects'[pk].members
              /\ resp'.status = HTTP_404_NOT_FOUND => m \notin Users
              /\ act \notin {"add", "remove"} =>
                    resp'.status = HTTP_400_BAD_REQUEST]_vars

\* C9: for the owner, adding a user who is already a member and removing a
\* user who is not a member both get 200 and leave the member set as it
\* was (so a repeated add or remove ends like the first).
C9_MembershipIdempotent ==
    [][\A a \in Users, pk \in DOMAIN projects, m \in Users, act \in {"add", "remove"} :
          (/\ IsOwner(a, pk)
           /\ (act = "add" <=> IsMember(m, pk))
           /\ ProjectMembers(a, pk, m, act)) =>
              /\ resp'.status = HTTP_200_OK
              /\ projects'[pk].members = projects[pk].members]_vars

\* C10: an assign/unassign request on task T is let through exactly when
\* the actor is T.project.owner, T.created_by or T.assigned_to; an actor
\* who can see T without being one of them gets 403, not 404.
C10_AssignPermission ==
    [][\A a \in Users, pk \in DOMAIN tasks, u \in UserIds \cup {None} :
          TaskAssign(a, pk, u) =>
              /\ MayAssign(a, pk) <=>
                    resp'.status \notin {HTTP_403_FORBIDDEN, HTTP_404_NOT_FOUND}
              /\ (~MayAssign(a, pk) /\ pk \in TaskDetailView_get_queryset(a)) =>
                    resp'.status = HTTP_403_FORBIDDEN]_vars

\* C11: a step that removes user B from the members of project P leaves
\* every task as it was; a task of P assigned to B is still assigned to B
\* and B still gets it from the task lookup.
C11_RemovalKeepsAssignment ==
    [][\A pk \in DOMAIN projects \cap DOMAIN projects', b \in Users :
          (IsMember(b, pk) /\ b \notin projects'[pk].members) =>
              /\ tasks' = tasks
              /\ \A t \in DOMAIN tasks :
                    (tasks[t].project = pk /\ tasks[t].assigned_to = b) =>
                        /\ tasks'[t].assigned_to = b
                        /\ get_object(Rows(TaskDetailView_get_queryset(b), t))'
                               = HTTP_200_OK]_vars

\* C11 witness: the member request has just removed user B (it got 200
\* and B is no member now; an 'add' would have left B in the set) from a
\* project that holds a task assigned to B, B is neither the owner nor a
\* superuser, and B gets the task from the lookup
C11_Witness ==
    /\ resp.op = "project_members"
    /\ resp.status = HTTP_200_OK
    /\ resp.pk \in DOMAIN projects
    /\ resp.arg \in Users \ Superusers
    /\ ~IsMember(resp.arg, resp.pk)
    /\ ~IsOwner(resp.arg, resp.pk)
    /\ \E t \in DOMAIN tasks :
          /\ tasks[t].project = resp.pk
          /\ tasks[t].assigned_to = resp.arg
          /\ get_object(Rows(TaskDetailView_get_queryset(resp.arg), t))
                 = HTTP_200_OK

\* C12: the membership read and the assignment write of an assign request
\* are one atomic step: no assign request saves T.assigned_to = U after U
\* was removed from the members of T.project (U not being the owner).
C12_AssignAtomic ==
    [][TaskAssign_save =>
          LET q == Head(inflight) IN
          \/ IsMember(q.task.assigned_to, tasks[q.pk].project)
          \/ IsOwner(q.task.assigned_to, tasks[q.pk].project)]_vars

\* C13: a superuser is allowed every action on every resource: the
\* superuser's view, edit, delete, member-management, task-create and
\* assign requests are found and applied, whoever owns the resource.
C13_SuperuserAll ==
    [][\A a \in Superusers :
          /\ \A pk \in DOMAIN projects :
                /\ ProjectRetrieve(a, pk) => resp'.status = HTTP_200_OK
                /\ \A d \in ProjectData :
                      ProjectUpdate(a, pk, d) =>
                          /\ resp'.status = HTTP_200_OK
                          /\ projects'[pk] = ProjectSerializer_update(projects[pk], d)
                /\ ProjectDestroy(a, pk) =>
                      /\ resp'.status = HTTP_204_NO_CONTENT
                      /\ pk \notin DOMAIN projects'
                /\ \A m \in projects[pk].members :
                      ProjectMembers(a, pk, m, "remove") =>
                          /\ resp'.status = HTTP_200_OK
                          /\ m \notin projects'[pk].members
          /\ \A d \in TaskCreateData :
                (d.project \in DOMAIN projects /\ TaskCreate(a, d)) =>
                    /\ resp'.status = HTTP_201_CREATED
                    /\ next_task \in DOMAIN tasks'
          /\ \A pk \in DOMAIN tasks :
                /\ TaskRetrieve(a, pk) => resp'.status = HTTP_200_OK
                /\ \A d \in TaskData :
                      (("project" \in d.fields => d.project \in DOMAIN projects)
                       /\ TaskUpdate(a, pk, d)) =>
                          /\ resp'.status = HTTP_200_OK
                          /\ tasks'[pk] = TaskSerializer_save(tasks[pk], d)
                /\ TaskDestroy(a, pk) =>
                      /\ resp'.status = HTTP_204_NO_CONTENT
                      /\ pk \notin DOMAIN tasks'
                /\ \A u \in projects[tasks[pk].project].members \cup {None} :
                      TaskAssign(a, pk, u) =>
                          /\ resp'.status = HTTP_200_OK
                          /\ tasks'[pk].assigned_to = u]_vars

\* C14: whenever task create, task edit or assign writes a non-null
\* assigned_to, the written user is at that moment the owner or a member
\* of the task's project.
C14_AssigneeEligibleWhenWritten ==
    [][\A pk \in DOMAIN tasks' :
          (/\ resp'.op \in {"task_create", "task_update", "task_assign"}
           /\ resp'.pk = pk
           /\ (pk \in DOMAIN tasks =>
                  tasks'[pk].assigned_to # tasks[pk].assigned_to)
           /\ tasks'[pk].assigned_to # None) =>
              \/ IsOwner(tasks'[pk].assigned_to, tasks'[pk].project)
              \/ IsMember(tasks'[pk].assigned_to, tasks'[pk].project)]_vars

\* C15: a task's project is fixed at creation: no edit, assign or
\* membership request changes the project a task belongs to.
C15_ProjectFixed ==
    [][\A pk \in DOMAIN tasks \cap DOMAIN tasks' :
          tasks'[pk].project = tasks[pk].project]_vars

\* the request left the database as it was
DatabaseUnchanged == UNCHANGED <<projects, tasks, next_project, next_task>>

====
